---- MODULE Spec2Model ----
(***************************************************************************)
(* A model of Orange/widgets/data/owsql.py (the OWSql widget): the         *)
(* resource-file query parser, the table catalog, and get_table.           *)
(*                                                                         *)
(* Text is modelled as a sequence of one-character strings, so that the    *)
(* regular expressions, str.find, slicing, strip and upper of the source   *)
(* are computed as the source computes them.                               *)
(***************************************************************************)
EXTENDS Integers, Sequences, FiniteSets, TLC

(***************************************************************************)
(* Text helpers                                                            *)
(***************************************************************************)

\* s starts with p                      (re "^p", str.startswith)
IsPrefix(p, s) ==
    /\ Len(p) <= Len(s)
    /\ SubSeq(s, 1, Len(p)) = p

\* p occurs in s at the 1-based position i
OccursAt(p, s, i) ==
    /\ i >= 1
    /\ i + Len(p) - 1 <= Len(s)
    /\ SubSeq(s, i, i + Len(p) - 1) = p

\* re.search of a literal p anywhere in s
Contains(s, p) == \E i \in 1..(Len(s) + 1) : OccursAt(p, s, i)

\* str.find: the 0-based index of the first occurrence of p in s, else -1
Find(s, p) ==
    IF Contains(s, p)
    THEN (CHOOSE i \in 1..(Len(s) + 1) :
             /\ OccursAt(p, s, i)
             /\ \A j \in 1..(i - 1) : ~OccursAt(p, s, j)) - 1
    ELSE -1

\* Python's s[:k] for any integer k (negative k counts from the end)
SliceTo(s, k) ==
    LET stop == IF k < 0 THEN (IF Len(s) + k < 0 THEN 0 ELSE Len(s) + k)
                ELSE (IF k > Len(s) THEN Len(s) ELSE k)
    IN SubSeq(s, 1, stop)

LowerCase == <<"a","b","c","d","e","f","g","h","i","j","k","l","m",
               "n","o","p","q","r","s","t","u","v","w","x","y","z">>
UpperCase == <<"A","B","C","D","E","F","G","H","I","J","K","L","M",
               "N","O","P","Q","R","S","T","U","V","W","X","Y","Z">>

\* str.upper on one character
UpperChar(c) ==
    IF \E i \in 1..Len(LowerCase) : LowerCase[i] = c
    THEN UpperCase[CHOOSE i \in 1..Len(LowerCase) : LowerCase[i] = c]
    ELSE c

\* str.upper
Upper(s) == [i \in 1..Len(s) |-> UpperChar(s[i])]

IsSpace(c) == c \in {" ", "\n", "\t", "\r"}

\* str.strip
Strip(s) ==
    IF \A i \in 1..Len(s) : IsSpace(s[i])
    THEN <<>>
    ELSE LET a == CHOOSE i \in 1..Len(s) :
                      ~IsSpace(s[i]) /\ \A j \in 1..(i - 1) : IsSpace(s[j])
             b == CHOOSE i \in 1..Len(s) :
                      ~IsSpace(s[i]) /\ \A j \in (i + 1)..Len(s) : IsSpace(s[j])
         IN SubSeq(s, a, b)

\* sep.join(parts)
RECURSIVE Join(_, _)
Join(sep, parts) ==
    IF parts = <<>> THEN <<>>
    ELSE IF Len(parts) = 1 THEN parts[1]
    ELSE parts[1] \o sep \o Join(sep, Tail(parts))

(***************************************************************************)
(* Python dict with insertion order: a sequence of [k, v] entries.         *)
(***************************************************************************)
DictHas(d, key) == \E i \in 1..Len(d) : d[i].k = key

DictGet(d, key) == d[CHOOSE i \in 1..Len(d) : d[i].k = key].v

\* d[key] = val : an existing key keeps its position
DictPut(d, key, val) ==
    IF DictHas(d, key)
    THEN [i \in 1..Len(d) |-> IF d[i].k = key THEN [k |-> key, v |-> val] ELSE d[i]]
    ELSE Append(d, [k |-> key, v |-> val])

\* list(d.keys())
DictKeys(d) == [i \in 1..Len(d) |-> d[i].k]

\* d.update(e)
RECURSIVE DictUpdate(_, _)
DictUpdate(d, e) ==
    IF e = <<>> THEN d
    ELSE DictUpdate(DictPut(d, e[1].k, e[1].v), Tail(e))

(***************************************************************************)
(* _parse_sql_resource_file                                                *)
(***************************************************************************)
\* Optional values: <<>> is None, <<x>> is the value x.
None == <<>>
Some(x) == <<x>>

NamePrefix == <<"-","-"," ","n","a","m","e",":">>
CommentMark == <<"-","-">>
SelectUpper == <<"S","E","L","E","C","T">>
SelectLower == <<"s","e","l","e","c","t">>
NoneText == <<"N","o","n","e">>

\* the longest prefix of s without a line break (what ".*" matches)
RECURSIVE DotStar(_)
DotStar(s) ==
    IF s = <<>> \/ Head(s) = "\n" THEN <<>>
    ELSE <<Head(s)>> \o DotStar(Tail(s))

\* name_pattern = "^-- name:(.*)$", used with search: "$" matches at the end
\* of the string or just before a line break that ends the string
name_pattern(line) ==
    /\ IsPrefix(NamePrefix, line)
    /\ LET rest == SubSeq(line, Len(NamePrefix) + 1, Len(line))
           g == DotStar(rest)
       IN \/ Len(g) = Len(rest)
          \/ Len(g) = Len(rest) - 1 /\ rest[Len(rest)] = "\n"

\* n.group(1)
name_group(line) == DotStar(SubSeq(line, Len(NamePrefix) + 1, Len(line)))

\* ignore_line = "^--.*", used with match
ignore_line(line) == IsPrefix(CommentMark, line)

\* start_query = "^SELECT|select", used with search: the alternation binds
\* weaker than "^", so "select" is looked for anywhere in the line
start_query(line) == IsPrefix(SelectUpper, line) \/ Contains(line, SelectLower)

\* stop_query = ";$", used with search
stop_query(line) ==
    \/ Len(line) >= 1 /\ line[Len(line)] = ";"
    \/ Len(line) >= 2 /\ line[Len(line)] = "\n" /\ line[Len(line) - 1] = ";"

\* trn = lambda x: str(x).strip().upper(), x an optional text (str(None) = "None")
trn(x) == Upper(Strip(IF x = None THEN NoneText ELSE x[1]))

\* delete_comments: line[:line.find('--')]
delete_comments(line) == SliceTo(line, Find(line, CommentMark))

\* ' '.join(map(delete_comments, query))
JoinQuery(q) == Join(<<" ">>, [i \in 1..Len(q) |-> delete_comments(q[i])])

\* The parser's loop state: name, query, selects.
ParserInit == [name |-> None, query |-> <<>>, selects |-> <<>>]

\* The first if-tree of the loop body (lines 128-136); skip is the "continue".
FirstTree(st, line) ==
    IF name_pattern(line)
    THEN [st |-> [st EXCEPT !.name = Some(name_group(line))], skip |-> FALSE]
    ELSE IF ignore_line(line)
    THEN [st |-> st, skip |-> TRUE]
    ELSE IF start_query(line) /\ stop_query(line)
    THEN [st |-> [st EXCEPT !.selects = DictPut(st.selects, trn(st.name), line),
                            !.name = None],
          skip |-> FALSE]
    ELSE [st |-> st, skip |-> FALSE]

\* The second if-tree of the loop body (lines 139-149).
SecondTree(st, line) ==
    IF start_query(line) /\ st.name # None
    THEN [st EXCEPT !.query = Append(st.query, line)]
    ELSE IF stop_query(line) /\ st.name # None
    THEN [st EXCEPT !.selects = DictPut(st.selects, trn(st.name),
                                        JoinQuery(Append(st.query, line))),
                    !.query = <<>>,
                    !.name = None]
    ELSE IF st.query # <<>>
    THEN [st EXCEPT !.query = Append(st.query, line)]
    ELSE st

\* One iteration of "while line := resfile.readline()".
ParseLine(st, line) ==
    LET f == FirstTree(st, line)
    IN IF f.skip THEN f.st ELSE SecondTree(f.st, line)

\* The loop over the lines of a file, from the state st.
RECURSIVE ParseFrom(_, _)
ParseFrom(st, lines) ==
    IF lines = <<>> THEN st
    ELSE ParseFrom(ParseLine(st, lines[1]), Tail(lines))

\* _parse_sql_resource_file on a readable file: the returned selects
ParseFile(lines) == ParseFrom(ParserInit, lines).selects

(***************************************************************************)
(* The lines a resource file is made of in this model.  readline() returns *)
(* a line with its line break; only the last line of a file may lack one.  *)
(***************************************************************************)
\* '-- name:a\n'
NameLineA == <<"-","-"," ","n","a","m","e",":","a","\n">>
\* '-- name: A \n'
NameLineA2 == <<"-","-"," ","n","a","m","e",":"," ","A"," ","\n">>
\* '-- c\n'
CommentLine == <<"-","-"," ","c","\n">>
\* 'SELECT 1;\n'
OneLineQuery == <<"S","E","L","E","C","T"," ","1",";","\n">>
\* 'SELECT x\n'
StartLine == <<"S","E","L","E","C","T"," ","x","\n">>
\* 'FROM t -- c\n'
MiddleLine == <<"F","R","O","M"," ","t"," ","-","-"," ","c","\n">>
\* 'WHERE y;\n'
StopLine == <<"W","H","E","R","E"," ","y",";","\n">>
\* 'WHERE y IN (select 2);\n'
SubSelectStopLine == <<"W","H","E","R","E"," ","y"," ","I","N"," ","(","s","e","l","e","c","t"," ","2",")",";","\n">>
\* 'SELECT 1;'
OneLineQueryAtEof == <<"S","E","L","E","C","T"," ","1",";">>
\* 'WHERE y;'
StopLineAtEof == <<"W","H","E","R","E"," ","y",";">>

LineLib == {NameLineA, NameLineA2, CommentLine, OneLineQuery, StartLine, MiddleLine, StopLine, SubSelectStopLine, OneLineQueryAtEof, StopLineAtEof}

\* the longest file read
MaxLines == 6

EndsWithNewline(line) == line # <<>> /\ line[Len(line)] = "\n"

\* readline() has more to return only after a line that ended in a line break
CanReadOn(read) == IF read = <<>> THEN TRUE ELSE EndsWithNewline(read[Len(read)])

(***************************************************************************)
(* The widget: texts, backends and the values the environment supplies.    *)
(***************************************************************************)
\* '-- name:b\n'
NameLineB == <<"-","-"," ","n","a","m","e",":","b","\n">>
\* 'Select a table'
SelectATable == <<"S","e","l","e","c","t"," ","a"," ","t","a","b","l","e">>
\* 'Custom SQL'
CustomSQL == <<"C","u","s","t","o","m"," ","S","Q","L">>
\* 't1'
TableT1 == <<"t","1">>
\* 't2'
TableT2 == <<"t","2">>
\* 'A'
TableA == <<"A">>
\* 'DROP TABLE IF EXISTS '
DropTableIfExists == <<"D","R","O","P"," ","T","A","B","L","E"," ","I","F"," ","E","X","I","S","T","S"," ">>
\* 'CREATE TABLE '
CreateTable == <<"C","R","E","A","T","E"," ","T","A","B","L","E"," ">>
\* ' AS '
AsKeyword == <<" ","A","S"," ">>
\* 'ANALYZE '
Analyze == <<"A","N","A","L","Y","Z","E"," ">>
\* ''
EmptyText == <<>>
\* 'm'
MaterializedName == <<"m">>
\* 'SELECT 3'
CustomText == <<"S","E","L","E","C","T"," ","3">>
\* 'q.sql'
PathToQueries == <<"q",".","s","q","l">>

\* MAX_DL_LIMIT (line 16); LARGE_TABLE and AUTO_DL_LIMIT are imported from
\* Orange.data.sql.table (line 8), where they are 100000 and 10000.
MAX_DL_LIMIT == 1000000
LARGE_TABLE == 100000
AUTO_DL_LIMIT == 10000

\* Backends: display_name, and whether missing_extension is a non-empty list.
Postgres == [display_name |-> "PostgreSQL", missing_extension |-> FALSE]
PostgresNoExt == [display_name |-> "PostgreSQL", missing_extension |-> TRUE]
SqlServer == [display_name |-> "SQL Server", missing_extension |-> FALSE]
Backends == {Postgres, PostgresNoExt, SqlServer}

\* what backend.list_tables(schema) may return
TableLists == {<<TableT1, TableT2>>, <<TableA>>}

\* what table.approx_len() may return
ApproxLens == {0, AUTO_DL_LIMIT, LARGE_TABLE - 1, LARGE_TABLE, LARGE_TABLE + 1,
               MAX_DL_LIMIT, MAX_DL_LIMIT + 1}

\* the resource files the path may hold
ResFile1 == <<NameLineA, OneLineQuery>>
ResFile2 == <<NameLineB, OneLineQuery, NameLineA, StartLine, StopLine>>
ResFiles == {ResFile1, ResFile2}

\* what the user may type
Paths == {EmptyText, PathToQueries}
MaterializeNames == {EmptyText, MaterializedName}
SqlTexts == {CustomText}

VARIABLES
    \* ---- _parse_sql_resource_file, one line at a time ----
    resfile,   \* the lines readline() has returned so far
    name,      \* the parser's pending name (None or Some(text))
    query,     \* the parser's accumulation buffer
    selects,   \* the parser's result mapping
    \* ---- the widget ----
    backend,                \* self.backend: None or Some(backend)
    tables,                 \* self.tables, the items of tablecombo
    curIdx,                 \* tablecombo.currentIndex(), 0-based, -1 when empty
    file_queries,           \* self.file_queries
    table,                  \* self.table: None or Some(text)
    sql,                    \* self.sql
    sqltext,                \* the text of the sqltext editor
    guess_values,           \* self.guess_values
    download,               \* self.download
    downloadcb_enabled,     \* downloadcb.isEnabled()
    materialize,            \* self.materialize
    materialize_table_name, \* self.materialize_table_name
    path_to_res_file,       \* self.path_to_res_file
    connection_error,       \* Error.connection is shown
    empty_path,             \* Error.empty_path is shown
    file_os_error,          \* Error.file_os_error is shown
    data_sampled,           \* Information.data_sampled is shown
    missing_extension,      \* Warning.missing_extension is shown
    data_desc_table,        \* self.data_desc_table: None or Some(dataset)
    listed,                 \* what list_tables returned to the last refresh_tables
    custom_sql_visible,     \* custom_sql.isVisible(): the editor, the materialize
                            \* controls and the "Execute" button can be used
    file_controls_visible,  \* file_controls.isVisible(): the path and the
                            \* "Load tables from file" button can be used
    last                    \* the get_table call of the handler that just ran

parser_vars == <<resfile, name, query, selects>>
widget_vars == <<backend, tables, curIdx, file_queries, table, sql, sqltext,
                 guess_values, download, downloadcb_enabled, materialize,
                 materialize_table_name, path_to_res_file, connection_error,
                 empty_path, file_os_error, data_sampled, missing_extension,
                 data_desc_table, listed, custom_sql_visible,
                 file_controls_visible, last>>
vars == <<parser_vars, widget_vars>>

(***************************************************************************)
(* The widget's state as one record, so that a handler is a function from  *)
(* state to state and handlers compose as they call each other.            *)
(***************************************************************************)
W == [backend |-> backend, tables |-> tables, curIdx |-> curIdx,
      file_queries |-> file_queries, table |-> table, sql |-> sql,
      sqltext |-> sqltext, guess_values |-> guess_values, download |-> download,
      downloadcb_enabled |-> downloadcb_enabled, materialize |-> materialize,
      materialize_table_name |-> materialize_table_name,
      path_to_res_file |-> path_to_res_file,
      connection_error |-> connection_error, empty_path |-> empty_path,
      file_os_error |-> file_os_error, data_sampled |-> data_sampled,
      missing_extension |-> missing_extension,
      data_desc_table |-> data_desc_table, listed |-> listed,
      custom_sql_visible |-> custom_sql_visible,
      file_controls_visible |-> file_controls_visible, last |-> last]

Assign(w) ==
    /\ backend' = w.backend
    /\ tables' = w.tables
    /\ curIdx' = w.curIdx
    /\ file_queries' = w.file_queries
    /\ table' = w.table
    /\ sql' = w.sql
    /\ sqltext' = w.sqltext
    /\ guess_values' = w.guess_values
    /\ download' = w.download
    /\ downloadcb_enabled' = w.downloadcb_enabled
    /\ materialize' = w.materialize
    /\ materialize_table_name' = w.materialize_table_name
    /\ path_to_res_file' = w.path_to_res_file
    /\ connection_error' = w.connection_error
    /\ empty_path' = w.empty_path
    /\ file_os_error' = w.file_os_error
    /\ data_sampled' = w.data_sampled
    /\ missing_extension' = w.missing_extension
    /\ data_desc_table' = w.data_desc_table
    /\ listed' = w.listed
    /\ custom_sql_visible' = w.custom_sql_visible
    /\ file_controls_visible' = w.file_controls_visible
    /\ last' = w.last

\* the handler that just ran made no get_table call
NoCall == [fresh |-> FALSE, guess_values |-> FALSE, calls |-> <<>>, result |-> None]

\* The state after __init__, with the default settings (lines 55-64, 77-88).
WidgetInit ==
    /\ backend = None
    /\ tables = <<>>
    /\ curIdx = -1
    /\ file_queries = <<>>
    /\ table = None
    /\ sql = EmptyText
    /\ sqltext = EmptyText
    /\ guess_values = TRUE
    /\ download = FALSE
    /\ downloadcb_enabled = TRUE
    /\ materialize = FALSE
    /\ materialize_table_name = EmptyText
    /\ path_to_res_file = EmptyText
    /\ connection_error = FALSE
    /\ empty_path = FALSE
    /\ file_os_error = FALSE
    /\ data_sampled = FALSE
    /\ missing_extension = FALSE
    /\ data_desc_table = None
    /\ listed = <<>>
    /\ custom_sql_visible = FALSE
    /\ file_controls_visible = FALSE
    /\ last = NoCall

(***************************************************************************)
(* The catalog                                                             *)
(***************************************************************************)
\* is_postgres(backend), backend optional
is_postgres(b) == b # None /\ b[1].display_name = "PostgreSQL"

\* tablecombo.itemText(i): the empty text when i is no item
ItemText(items, i) == IF i >= 0 /\ i < Len(items) THEN items[i + 1] ELSE EmptyText

\* tablecombo.findText(text): the 0-based index of the first equal item, else -1
FindText(items, text) ==
    IF \E i \in 1..Len(items) : items[i] = text
    THEN (CHOOSE i \in 1..Len(items) :
             items[i] = text /\ \A j \in 1..(i - 1) : items[j] # text) - 1
    ELSE -1

\* str(self.table)
TableStr(t) == IF t = None THEN NoneText ELSE t[1]

\* (mutant) the backend's tables are added before the named queries
Catalog_tables_first(fq, lt) == <<SelectATable, CustomSQL>> \o lt \o DictKeys(fq)

\* The items refresh_tables builds for a backend (lines 264-268).
Catalog(fq, lt) == <<SelectATable, CustomSQL>> \o DictKeys(fq) \o lt

\* refresh_tables; lt is what backend.list_tables(self.schema) returns
refresh_tables(w, lt) ==
    IF w.backend = None
    THEN [w EXCEPT !.tables = <<>>, !.curIdx = -1, !.data_desc_table = None]
    ELSE LET items == Catalog(w.file_queries, lt)
             index == FindText(items, TableStr(w.table))
         IN [w EXCEPT !.tables = items,
                      !.curIdx = IF index # -1 THEN index ELSE 0,
                      !.listed = lt,
                      !.file_controls_visible = TRUE]

\* (mutant) the queries are parsed straight into self.file_queries
load_tables_from_file_partial(w, lines, readable, lt) ==
    IF w.path_to_res_file = EmptyText
    THEN [w EXCEPT !.empty_path = TRUE]
    ELSE LET w1 == [w EXCEPT !.empty_path = FALSE,
                             !.file_queries =
                                 DictUpdate(@, ParseFile(SubSeq(lines, 1, readable)))]
         IN IF readable < Len(lines)
            THEN [w1 EXCEPT !.file_os_error = TRUE]
            ELSE refresh_tables([w1 EXCEPT !.file_os_error = FALSE], lt)

\* _load_tables_from_file; lines is the file at the path and readable the number
\* of its lines that can be read before an OSError (all of them: no error)
load_tables_from_file(w, lines, readable, lt) ==
    IF w.path_to_res_file = EmptyText
    THEN [w EXCEPT !.empty_path = TRUE]
    ELSE LET w1 == [w EXCEPT !.empty_path = FALSE]
         IN IF readable < Len(lines)
            THEN [w1 EXCEPT !.file_os_error = TRUE]
            ELSE refresh_tables(
                     [w1 EXCEPT !.file_os_error = FALSE,
                                !.file_queries = DictUpdate(@, ParseFile(lines))],
                     lt)

Ev(kind, text, num, ans) == [kind |-> kind, text |-> text, num |-> num, ans |-> ans]

(***************************************************************************)
(* get_table                                                               *)
(*                                                                         *)
(* The calls get_table makes on its collaborators are recorded, in order,  *)
(* as events [kind, text, num, ans]:                                       *)
(*   execute_sql_query  text = the statement, ans = "ok" | "BackendError"  *)
(*   SqlTable           text = what, num = approx_len(), ans as above      *)
(*   discovery_prompt   num = approx_len(), ans = the button clicked       *)
(*   sample_time        num = the argument                                 *)
(*   get_domain         ans = "sample" | "full": the relation inspected    *)
(*   download_prompt    num = approx_len(), ans = the button clicked       *)
(*   too_big_warning    num = approx_len()                                 *)
(*   sample_percentage                                                     *)
(*   download_data      num = the limit passed, ans = "sample" | "full":   *)
(*                      the relation downloaded                            *)
(***************************************************************************)
\* What the environment decides during one get_table call: the relation's
\* approximate length, the backend call that raises BackendError (if any),
\* and the buttons clicked ("none": the dialog is not shown).
NoEnv == [n |-> 0, fail |-> "none", disc |-> "none", dl |-> "none"]

\* (mutant) a label the backend listed is a live table, whatever the named
\* queries hold
SelectionKind_live_first(w) ==
    IF w.curIdx <= 0 THEN "none"
    ELSE IF \E i \in 1..Len(w.listed) : w.listed[i] = ItemText(w.tables, w.curIdx)
    THEN "live"
    ELSE IF DictHas(w.file_queries, ItemText(w.tables, w.curIdx)) THEN "named"
    ELSE IF ItemText(w.tables, w.curIdx) # CustomSQL THEN "live"
    ELSE "custom"

\* the branch of lines 303-317 the selection takes
SelectionKind(w) ==
    IF w.curIdx <= 0 THEN "none"
    ELSE IF DictHas(w.file_queries, ItemText(w.tables, w.curIdx)) THEN "named"
    ELSE IF ItemText(w.tables, w.curIdx) # CustomSQL THEN "live"
    ELSE "custom"

\* line 318-319: the materialization statements are run
Materializes(w) ==
    /\ SelectionKind(w) = "custom"
    /\ w.materialize
    /\ w.materialize_table_name # EmptyText

\* line 319-322: the materialize name is missing
MissingMaterializeName(w) ==
    /\ SelectionKind(w) = "custom"
    /\ w.materialize
    /\ w.materialize_table_name = EmptyText

\* The three statements of lines 324-332, in order.
MaterializeStatements(mname, text) ==
    << [stmt |-> DropTableIfExists \o mname, failure |-> "drop"],
       [stmt |-> CreateTable \o mname \o AsKeyword \o text, failure |-> "create"],
       [stmt |-> Analyze \o mname, failure |-> "analyze"] >>

\* (mutant) every statement is tried, whatever the earlier ones did
RunStatements_goon(stmts, fail) ==
    [calls |-> [i \in 1..Len(stmts) |->
                   Ev("execute_sql_query", stmts[i].stmt, 0,
                      IF stmts[i].failure = fail THEN "BackendError" ELSE "ok")],
     ok |-> \A i \in 1..Len(stmts) : stmts[i].failure # fail]

\* The try block of lines 323-335: the statements are executed in order and a
\* BackendError leaves the block.  The calls made, and whether all succeeded.
RECURSIVE RunStatements(_, _)
RunStatements(stmts, fail) ==
    IF stmts = <<>> THEN [calls |-> <<>>, ok |-> TRUE]
    ELSE IF stmts[1].failure = fail
    THEN [calls |-> <<Ev("execute_sql_query", stmts[1].stmt, 0, "BackendError")>>,
          ok |-> FALSE]
    ELSE LET r == RunStatements(Tail(stmts), fail)
         IN [calls |-> <<Ev("execute_sql_query", stmts[1].stmt, 0, "ok")>> \o r.calls,
             ok |-> r.ok]

\* (mutant) the threshold itself already asks
DiscoveryAsked_atleast(n, guess) == n >= LARGE_TABLE /\ guess

\* line 354: the discovery dialog is shown
DiscoveryAsked(n, guess) == n > LARGE_TABLE /\ guess

\* lines 360-364: the buttons of the discovery dialog
DiscoveryButtons(b) ==
    {"yes", "no"} \cup (IF is_postgres(b) THEN {"sample"} ELSE {})

\* (mutant) the length is compared with the wrong limit
DownloadRefused_large(b, n) == ~is_postgres(b) /\ n > MAX_DL_LIMIT + LARGE_TABLE

\* lines 405-411: the download is refused with a warning
DownloadRefused(b, n) == ~is_postgres(b) /\ n > MAX_DL_LIMIT

\* lines 385-386, 405, 413: a download dialog with a choice is shown
DownloadAsked(b, n, dl) ==
    /\ dl
    /\ n > AUTO_DL_LIMIT
    /\ ~DownloadRefused(b, n)

\* (mutant) "Yes" is offered whatever the length
DownloadButtons_yes(b, n) ==
    IF is_postgres(b) THEN {"yes", "no", "sample"} ELSE {"yes", "no"}

\* lines 393-397 and 413-417: the buttons of the download dialog
DownloadButtons(b, n) ==
    IF is_postgres(b)
    THEN (IF n <= MAX_DL_LIMIT THEN {"yes"} ELSE {}) \cup {"no", "sample"}
    ELSE {"yes", "no"}

\* the limit passed to download_data (line 421)
DownloadLimit == MAX_DL_LIMIT

\* (mutant) "No" skips the inference but leaves the option as it was
GuessValuesAfter_keep(asked, ans, guess) == guess

\* lines 366-367: self.guess_values after the discovery dialog
GuessValuesAfter(asked, ans, guess) == IF asked /\ ans = "no" THEN FALSE ELSE guess

\* (mutant) the option is read before the dialog is shown
InspectValues_early(before, after) == before.guess_values

\* line 373: the inference is decided by self.guess_values as the dialog of
\* lines 354-370 left it (before: the state at line 352, after: at line 372)
InspectValues(before, after) == after.guess_values

\* (mutant) only the PostgreSQL dialog can be declined
DownloadDeclined_pg_only(b, ans) == is_postgres(b) /\ ans = "no"

\* lines 399 and 418: the download dialog is answered "No"
DownloadDeclined(b, ans) == ans = "no"

\* The environments one get_table call can meet in the state w, on relations
\* whose approximate lengths are in lens.
EnvsFor(w, lens) ==
    IF SelectionKind(w) = "none" \/ MissingMaterializeName(w)
    THEN {NoEnv}
    ELSE {[NoEnv EXCEPT !.fail = f] :
             f \in (IF Materializes(w) THEN {"drop", "create", "analyze"} ELSE {})
                   \cup {"open"}}
         \cup UNION {
             {[n |-> n, fail |-> "none", disc |-> d, dl |-> x] :
                 d \in (IF DiscoveryAsked(n, w.guess_values)
                        THEN DiscoveryButtons(w.backend) ELSE {"none"}),
                 x \in (IF DownloadAsked(w.backend, n, w.download)
                        THEN DownloadButtons(w.backend, n) ELSE {"none"})} :
             n \in lens}

\* Lines 337-424: open the relation, infer its domain, download it.
\* w is the state after lines 296-335 and calls the calls made so far.
Ingest(w, what, calls, e) ==
    IF e.fail = "open"
    THEN [w |-> [w EXCEPT !.connection_error = TRUE],
          calls |-> Append(calls, Ev("SqlTable", what, 0, "BackendError")),
          result |-> None]
    ELSE
    LET c0 == Append(calls, Ev("SqlTable", what, e.n, "ok"))
        w0 == [w EXCEPT !.connection_error = FALSE]
        asked == DiscoveryAsked(e.n, w0.guess_values)
        c1 == IF asked THEN Append(c0, Ev("discovery_prompt", EmptyText, e.n, e.disc))
              ELSE c0
        w1 == [w0 EXCEPT !.guess_values = GuessValuesAfter(asked, e.disc, @)]
        guess == InspectValues(w0, w1)
        sample == asked /\ e.disc # "no" /\ is_postgres(w0.backend) /\ e.disc = "sample"
        c2 == IF ~guess THEN c1
              ELSE IF sample
              THEN c1 \o <<Ev("sample_time", EmptyText, 1, ""),
                           Ev("get_domain", EmptyText, 0, "sample")>>
              ELSE Append(c1, Ev("get_domain", EmptyText, 0, "full"))
        w2 == [w1 EXCEPT !.data_sampled = guess /\ sample]
        domain == IF ~guess THEN "not inspected" ELSE IF sample THEN "sample" ELSE "full"
        lazy == Some([what |-> what, domain |-> domain, rows |-> "remote"])
    IN  IF ~w2.download
        THEN [w |-> w2, calls |-> c2, result |-> lazy]
        ELSE IF ~(e.n > AUTO_DL_LIMIT)
        THEN [w |-> w2,
              calls |-> Append(c2, Ev("download_data", EmptyText, DownloadLimit, "full")),
              result |-> Some([what |-> what, domain |-> domain, rows |-> "full"])]
        ELSE IF DownloadRefused(w2.backend, e.n)
        THEN [w |-> w2,
              calls |-> Append(c2, Ev("too_big_warning", EmptyText, e.n, "")),
              result |-> None]
        ELSE
        LET c3 == Append(c2, Ev("download_prompt", EmptyText, e.n, e.dl))
        IN  IF DownloadDeclined(w2.backend, e.dl)
            THEN [w |-> w2, calls |-> c3, result |-> None]
            ELSE IF is_postgres(w2.backend) /\ e.dl = "sample"
            THEN [w |-> w2,
                  calls |-> c3 \o <<Ev("sample_percentage", EmptyText, 0, ""),
                                    Ev("download_data", EmptyText, DownloadLimit, "sample")>>,
                  result |-> Some([what |-> what, domain |-> domain, rows |-> "sample"])]
            ELSE [w |-> w2,
                  calls |-> Append(c3, Ev("download_data", EmptyText, DownloadLimit, "full")),
                  result |-> Some([what |-> what, domain |-> domain, rows |-> "full"])]

\* (mutant) the materialize name is not checked
ResolveCustom_unchecked(w, e) ==
    LET w1 == [w EXCEPT !.sql = w.sqltext, !.table = Some(CustomSQL)]
    IN  IF ~w1.materialize
        THEN [w |-> w1, calls |-> <<>>, go |-> TRUE]
        ELSE LET r == RunStatements(
                          MaterializeStatements(w1.materialize_table_name, w1.sql),
                          e.fail)
             IN [w |-> IF r.ok THEN w1 ELSE [w1 EXCEPT !.connection_error = TRUE],
                 calls |-> r.calls,
                 go |-> r.ok]

\* Lines 315-335: the Custom SQL branch up to the opening of the relation.
\* go: get_table goes on to open the relation.
ResolveCustom(w, e) ==
    LET w1 == [w EXCEPT !.sql = w.sqltext, !.table = Some(CustomSQL)]
    IN  IF ~w1.materialize
        THEN [w |-> w1, calls |-> <<>>, go |-> TRUE]
        ELSE IF w1.materialize_table_name = EmptyText
        THEN [w |-> [w1 EXCEPT !.connection_error = TRUE], calls |-> <<>>, go |-> FALSE]
        ELSE LET r == RunStatements(
                          MaterializeStatements(w1.materialize_table_name, w1.sql),
                          e.fail)
             IN [w |-> IF r.ok THEN w1 ELSE [w1 EXCEPT !.connection_error = TRUE],
                 calls |-> r.calls,
                 go |-> r.ok]

\* (mutant) after a materialization the relation is the materialized table
CustomTarget_materialized(w) ==
    IF w.materialize THEN w.materialize_table_name ELSE w.sql

\* lines 316 and 343: what the Custom SQL branch opens
CustomTarget(w) == w.sql

\* get_table: the state it leaves, the calls it made and what it returns.
get_table(w, e) ==
    LET kind == SelectionKind(w)
    IN  IF w.curIdx <= 0
        THEN [w |-> [w EXCEPT !.data_desc_table = None], calls |-> <<>>, result |-> None]
        ELSE IF kind = "named"
        THEN Ingest([w EXCEPT !.table = Some(w.tables[w.curIdx + 1]),
                              !.sql = w.sqltext],
                    w.sqltext, <<>>, e)
        ELSE IF kind = "live"
        THEN Ingest([w EXCEPT !.table = Some(w.tables[w.curIdx + 1])],
                    w.tables[w.curIdx + 1], <<>>, e)
        ELSE LET r == ResolveCustom(w, e)
             IN IF r.go THEN Ingest(r.w, CustomTarget(r.w), r.calls, e)
                ELSE [w |-> r.w, calls |-> r.calls, result |-> None]

\* The record kept of a get_table call made in the state w: get_table leaves
\* the selection, the backend and the settings other than guess_values as
\* they were, so only the guess_values it met is kept beside its calls and
\* its result.
CallRecord(w, r) ==
    [fresh |-> TRUE, guess_values |-> w.guess_values, calls |-> r.calls,
     result |-> r.result]

\* OWBaseSql.open_table: the result of get_table becomes the current dataset.
open_table(w, e) ==
    LET r == get_table(w, e)
    IN [r.w EXCEPT !.data_desc_table = r.result, !.last = CallRecord(w, r)]

\* line 278: select_table opens the table
OpensTable(w) ==
    /\ ItemText(w.tables, w.curIdx) # CustomSQL
    /\ ~DictHas(w.file_queries, ItemText(w.tables, w.curIdx))

\* select_table, lines 281-287: the Custom SQL and named-query branch
select_custom(w) ==
    [w EXCEPT !.last = NoCall,
              !.custom_sql_visible = TRUE,
              !.data_desc_table = None,
              !.table = None,
              !.sqltext = IF DictHas(w.file_queries, ItemText(w.tables, w.curIdx))
                          THEN DictGet(w.file_queries, ItemText(w.tables, w.curIdx))
                          ELSE @]

\* select_table
select_table(w, e) ==
    IF OpensTable(w)
    THEN open_table([w EXCEPT !.custom_sql_visible = FALSE], e)
    ELSE select_custom(w)

\* the environments select_table can meet
SelectEnvs(w, lens) == IF OpensTable(w) THEN EnvsFor(w, lens) ELSE {NoEnv}

\* clear (lines 250-256), with OWBaseSql.clear
clear(w) ==
    [w EXCEPT !.connection_error = FALSE,
              !.data_desc_table = None,
              !.missing_extension = FALSE,
              !.downloadcb_enabled = TRUE,
              !.tables = <<>>,
              !.curIdx = -1]

\* on_connection_success up to refresh_tables (lines 234-243)
connected(w, lt) ==
    LET w1 == IF w.backend[1].missing_extension
              THEN [w EXCEPT !.missing_extension = TRUE,
                             !.download = TRUE,
                             !.downloadcb_enabled = FALSE]
              ELSE w
        w2 == IF ~is_postgres(w1.backend)
              THEN [w1 EXCEPT !.download = TRUE, !.downloadcb_enabled = FALSE]
              ELSE w1
    IN refresh_tables(w2, lt)

\* on_connection_success
on_connection_success(w, lt, e) == select_table(connected(w, lt), e)

(***************************************************************************)
(* The handlers, as actions                                                *)
(***************************************************************************)
\* OWBaseSql.connect with a backend that connects: clear, then
\* on_connection_success (refresh_tables, select_table).
ConnectOn(lens, backends) ==
    \E b \in backends, lt \in TableLists :
        LET w1 == [clear(W) EXCEPT !.backend = Some(b)]
        IN \E e \in SelectEnvs(connected(w1, lt), lens) :
              /\ Assign(on_connection_success(w1, lt, e))
              /\ UNCHANGED parser_vars

\* tablecombo.activated[int]: the user picks item i, select_table runs
ActivateTableOn(lens) ==
    \E i \in 0..(Len(tables) - 1) :
        LET w1 == [W EXCEPT !.curIdx = i]
        IN \E e \in SelectEnvs(w1, lens) :
              /\ Assign(select_table(w1, e))
              /\ UNCHANGED parser_vars

\* the "Execute" button: open_table
ExecuteOn(lens) ==
    /\ custom_sql_visible
    /\ \E e \in EnvsFor(W, lens) :
          /\ Assign(open_table(W, e))
          /\ UNCHANGED parser_vars

Connect == ConnectOn(ApproxLens, Backends)
ActivateTable == ActivateTableOn(ApproxLens)
Execute == ExecuteOn(ApproxLens)

\* the "Auto-discover categorical variables" check box: open_table
ToggleGuessValues ==
    LET w1 == [W EXCEPT !.guess_values = ~guess_values]
    IN \E e \in EnvsFor(w1, ApproxLens) :
          /\ Assign(open_table(w1, e))
          /\ UNCHANGED parser_vars

\* the "Download data to local memory" check box: open_table
ToggleDownload ==
    /\ downloadcb_enabled
    /\ LET w1 == [W EXCEPT !.download = ~download]
       IN \E e \in EnvsFor(w1, ApproxLens) :
             /\ Assign(open_table(w1, e))
             /\ UNCHANGED parser_vars

\* the "Materialize to table" check box
ToggleMaterialize ==
    /\ custom_sql_visible
    /\ Assign([W EXCEPT !.materialize = ~materialize, !.last = NoCall])
    /\ UNCHANGED parser_vars

\* the materialize table name line edit
EditMaterializeName ==
    \E t \in MaterializeNames :
        /\ custom_sql_visible
        /\ t # materialize_table_name
        /\ Assign([W EXCEPT !.materialize_table_name = t, !.last = NoCall])
        /\ UNCHANGED parser_vars

\* the sqltext editor
EditSqlText ==
    \E t \in SqlTexts :
        /\ custom_sql_visible
        /\ t # sqltext
        /\ Assign([W EXCEPT !.sqltext = t, !.last = NoCall])
        /\ UNCHANGED parser_vars

\* the path line edit
EditPath ==
    \E t \in Paths :
        /\ file_controls_visible
        /\ t # path_to_res_file
        /\ Assign([W EXCEPT !.path_to_res_file = t, !.last = NoCall])
        /\ UNCHANGED parser_vars

\* the "Load tables from file" button: _load_tables_from_file
LoadTablesFromFile ==
    \E lines \in ResFiles, lt \in TableLists :
        \E readable \in 0..Len(lines) :
            /\ file_controls_visible
            /\ Assign([load_tables_from_file(W, lines, readable, lt) EXCEPT !.last = NoCall])
            /\ UNCHANGED parser_vars

(***************************************************************************)
(* The specifications                                                      *)
(***************************************************************************)
InitParse ==
    /\ resfile = <<>>
    /\ name = ParserInit.name
    /\ query = ParserInit.query
    /\ selects = ParserInit.selects

Init == InitParse /\ WidgetInit

Next ==
    \/ Connect
    \/ ActivateTable
    \/ Execute
    \/ ToggleGuessValues
    \/ ToggleDownload
    \/ ToggleMaterialize
    \/ EditMaterializeName
    \/ EditSqlText

\* The widget with no resource file loaded: connecting, selecting and
\* get_table under every setting, on relations of every length of ApproxLens.
Spec == Init /\ [][Next]_vars

\* In SpecCatalog the backend is PostgreSQL with its extensions and the
\* relations are small, so that get_table shows no dialog: refresh_tables and
\* _load_tables_from_file read neither the kind of backend nor a length.
CatalogLens == {AUTO_DL_LIMIT}
CatalogBackends == {Postgres}
CatalogConnect == ConnectOn(CatalogLens, CatalogBackends)
CatalogActivateTable == ActivateTableOn(CatalogLens)
CatalogExecute == ExecuteOn(CatalogLens)

NextCatalog ==
    \/ CatalogConnect
    \/ CatalogActivateTable
    \/ CatalogExecute
    \/ EditSqlText
    \/ EditPath
    \/ LoadTablesFromFile

\* The widget with resource files: connecting, loading named queries,
\* selecting and get_table under the default settings.
SpecCatalog == Init /\ [][NextCatalog]_vars

ParserState == [name |-> name, query |-> query, selects |-> selects]

\* readline() returns one more line and the loop body runs on it.  A file may
\* end after any line, so every state holds the result of parsing the file
\* resfile.
ReadLine ==
    /\ Len(resfile) < MaxLines
    /\ CanReadOn(resfile)
    /\ \E line \in LineLib :
          LET st == ParseLine(ParserState, line)
          IN /\ resfile' = Append(resfile, line)
             /\ name' = st.name
             /\ query' = st.query
             /\ selects' = st.selects
    /\ UNCHANGED widget_vars

NextParse == ReadLine

\* _parse_sql_resource_file on every file of at most MaxLines lines of LineLib
SpecParse == Init /\ [][NextParse]_vars

(***************************************************************************)
(* Properties of get_table (specification Spec)                            *)
(***************************************************************************)
\* the calls of the given kind among the calls of the handler's get_table
CallsOf(kind) == SelectSeq(last.calls, LAMBDA c : c.kind = kind)
Called(kind) == CallsOf(kind) # <<>>

\* get_table opened the relation, and its approximate length
Opened == \E i \in 1..Len(last.calls) :
              last.calls[i].kind = "SqlTable" /\ last.calls[i].ans = "ok"
OpenedLen == CallsOf("SqlTable")[1].num

\* get_table ran on the Custom SQL item with materialize set and a name
MaterializeCase ==
    /\ last.fresh
    /\ curIdx > 0
    /\ ItemText(tables, curIdx) = CustomSQL
    /\ ~DictHas(file_queries, CustomSQL)
    /\ materialize
    /\ materialize_table_name # EmptyText

\* C1: materializing issues DROP TABLE IF EXISTS, CREATE TABLE ... AS <sql>,
\* ANALYZE, in this order and before anything else; all three when none
\* fails; after one that raises BackendError nothing more is called, no
\* relation is opened, the connection error is shown and nothing is returned.
C1_MaterializeInOrder ==
    MaterializeCase =>
        LET ex == CallsOf("execute_sql_query")
            expected == << DropTableIfExists \o materialize_table_name,
                           CreateTable \o materialize_table_name \o AsKeyword \o sqltext,
                           Analyze \o materialize_table_name >>
        IN /\ Len(ex) \in 1..3
           /\ \A i \in 1..Len(ex) : /\ last.calls[i] = ex[i]
                                    /\ ex[i].text = expected[i]
           /\ \A i \in 1..(Len(ex) - 1) : ex[i].ans = "ok"
           /\ \/ Len(ex) = 3 /\ ex[3].ans = "ok"
              \/ /\ ex[Len(ex)].ans = "BackendError"
                 /\ last.calls = ex
                 /\ connection_error
                 /\ last.result = None

\* C1 witness: CREATE TABLE failed after a DROP that succeeded
C1_Witness ==
    /\ MaterializeCase
    /\ Len(last.calls) = 2
    /\ last.calls[2].ans = "BackendError"

\* C2: with materialize set and an empty name get_table makes no call at
\* all, shows the connection error and returns nothing.
C2_EmptyNameNoCall ==
    ( /\ last.fresh
      /\ curIdx > 0
      /\ ItemText(tables, curIdx) = CustomSQL
      /\ ~DictHas(file_queries, CustomSQL)
      /\ materialize
      /\ materialize_table_name = EmptyText )
    => ( /\ last.calls = <<>>
         /\ last.result = None
         /\ connection_error )

\* C2 witness: get_table ran on Custom SQL with materialize set and no name
C2_Witness ==
    /\ last.fresh
    /\ ItemText(tables, curIdx) = CustomSQL
    /\ materialize
    /\ materialize_table_name = EmptyText
    /\ sqltext # EmptyText

\* C3: every download_data call passes MAX_DL_LIMIT, and the full relation
\* is downloaded only when its approximate length is at most MAX_DL_LIMIT.
C3_DownloadCap ==
    last.fresh =>
        \A i \in 1..Len(last.calls) :
            last.calls[i].kind = "download_data" =>
                /\ last.calls[i].num = MAX_DL_LIMIT
                /\ last.calls[i].ans = "full" => OpenedLen <= MAX_DL_LIMIT

\* C3 witness: a relation longer than MAX_DL_LIMIT was downloaded, as a sample
C3_Witness ==
    /\ last.fresh
    /\ Opened
    /\ OpenedLen > MAX_DL_LIMIT
    /\ Called("download_data")

\* get_table opened a relation longer than MAX_DL_LIMIT with download set on
\* a backend that is not PostgreSQL
TooBigCase ==
    /\ last.fresh
    /\ Opened
    /\ OpenedLen > MAX_DL_LIMIT
    /\ download
    /\ ~is_postgres(backend)

\* C4 as claimed: the refusal comes without any dialog asking for a decision,
\* neither the discovery one nor the download one.
C4_NoPromptAtAll ==
    TooBigCase =>
        /\ last.result = None
        /\ ~Called("download_data")
        /\ ~Called("discovery_prompt")
        /\ ~Called("download_prompt")

\* C4 as amended: the refusal comes without the download dialog, nothing is
\* downloaded or returned; the discovery dialog is shown exactly when
\* guess_values was set.
C4_NoDownloadPrompt ==
    TooBigCase =>
        /\ last.result = None
        /\ ~Called("download_data")
        /\ ~Called("download_prompt")
        /\ Called("too_big_warning")
        /\ Called("discovery_prompt") <=> last.guess_values

\* C4 witness: a refusal after the discovery dialog was shown
C4_Witness == TooBigCase /\ Called("discovery_prompt")

\* C5: the discovery dialog is shown only for a relation longer than
\* LARGE_TABLE and with guess_values set; never at LARGE_TABLE or below.
C5_DiscoveryOnlyAboveLarge ==
    last.fresh =>
        /\ Called("discovery_prompt") =>
              Opened /\ OpenedLen > LARGE_TABLE /\ last.guess_values
        /\ (Opened /\ OpenedLen <= LARGE_TABLE) => ~Called("discovery_prompt")

\* C5 witness: guess_values set, a relation of exactly LARGE_TABLE rows, whose
\* domain was inferred without a dialog
C5_Witness ==
    /\ last.fresh
    /\ last.guess_values
    /\ Opened
    /\ OpenedLen = LARGE_TABLE
    /\ Called("get_domain")

\* the schema of what get_table returns: how its domain was inferred
Schema(result) == IF result = None THEN "no dataset" ELSE result[1].domain

\* C11: get_table run twice in a row on the same selection, backend and
\* relation, with the same answers to the dialogs that are shown, returns
\* twice a dataset whose domain was inferred the same way (from the full
\* relation, from a sample, not at all), or twice no dataset.
C11_Idempotent ==
    \A e \in EnvsFor(W, ApproxLens) :
        LET first == get_table(W, e)
            second == get_table(first.w, e)
        IN Schema(first.result) = Schema(second.result)

\* C11 witness: get_table ran and the discovery dialog was answered "No",
\* which changed guess_values; run again on the same relation it returns a
\* dataset whose domain is not inferred either
C11_Witness ==
    /\ last.fresh
    /\ Called("discovery_prompt")
    /\ CallsOf("discovery_prompt")[1].ans = "no"
    /\ last.result # None
    /\ Schema(last.result) = "not inspected"
    /\ \E e \in EnvsFor(W, ApproxLens) :
          /\ e.n = OpenedLen
          /\ e.fail = "none"
          /\ get_table(W, e).result # None
          /\ Schema(get_table(W, e).result) = "not inspected"

\* get_table ran on the Custom SQL item
CustomCase ==
    /\ last.fresh
    /\ curIdx > 0
    /\ ItemText(tables, curIdx) = CustomSQL
    /\ ~DictHas(file_queries, CustomSQL)

\* C13: on the Custom SQL item the relation is opened on the text of the
\* editor, with materialize off and after a materialization alike, and not
\* on the materialized table's name.
C13_CustomTargetIsSql ==
    CustomCase =>
        /\ \A i \in 1..Len(last.calls) :
              last.calls[i].kind = "SqlTable" =>
                  /\ last.calls[i].text = sqltext
                  /\ materialize => last.calls[i].text # materialize_table_name
        /\ last.result # None => last.result[1].what = sqltext

\* C13 witness: the three statements succeeded and the relation was opened
C13_Witness ==
    /\ MaterializeCase
    /\ Len(CallsOf("execute_sql_query")) = 3
    /\ Opened
    /\ last.result # None

\* lines 234-241: the backend samples with its extensions
SupportsSampling(b) == is_postgres(b) /\ ~b[1].missing_extension

\* C16: "Yes, on a sample" is clicked in the discovery dialog, and a domain
\* is inferred from a sample, only on PostgreSQL with no extension missing.
C16_SampleOnlyWithExtensions ==
    last.fresh =>
        \A i \in 1..Len(last.calls) :
            /\ (last.calls[i].kind = "discovery_prompt" /\ last.calls[i].ans = "sample")
                   => SupportsSampling(backend)
            /\ last.calls[i].kind = "sample_time" => SupportsSampling(backend)
            /\ (last.calls[i].kind = "get_domain" /\ last.calls[i].ans = "sample")
                   => SupportsSampling(backend)

\* the answer given to a dialog of get_table, "none" when it was not shown
Answer(kind) == IF Called(kind) THEN CallsOf(kind)[1].ans ELSE "none"

\* C17: the discovery dialog comes before every inference and the download
\* dialog before every sampling and download of rows; after "No" in the
\* discovery dialog nothing is inferred; after "No" in the download dialog
\* nothing is sampled or downloaded, nothing is returned and no error shown.
C17_PromptsPrecede ==
    last.fresh =>
        /\ \A i, j \in 1..Len(last.calls) :
              /\ ( /\ last.calls[i].kind = "discovery_prompt"
                   /\ last.calls[j].kind \in {"sample_time", "get_domain"} ) => i < j
              /\ ( /\ last.calls[i].kind = "download_prompt"
                   /\ last.calls[j].kind \in {"sample_percentage", "download_data"} ) => i < j
        /\ Answer("discovery_prompt") = "no" =>
              ~Called("sample_time") /\ ~Called("get_domain")
        /\ Answer("download_prompt") = "no" =>
              /\ ~Called("sample_percentage")
              /\ ~Called("download_data")
              /\ last.result = None
              /\ ~connection_error

\* C17 witness: the domain was inferred after "Yes" in the discovery dialog
\* and the download was declined
C17_Witness ==
    /\ last.fresh
    /\ Answer("discovery_prompt") = "yes"
    /\ Called("get_domain")
    /\ Answer("download_prompt") = "no"
    /\ ~is_postgres(backend)

\* C18: after a get_table call Information.data_sampled is shown exactly
\* when that call inferred the domain from a sample.
C18_SampledFlag ==
    last.fresh =>
        ( data_sampled <=>
              \E i \in 1..Len(last.calls) :
                  last.calls[i].kind = "get_domain" /\ last.calls[i].ans = "sample" )

\* what C20 says of the state a get_table call leaves
C20_AfterCall ==
    last.fresh =>
        /\ Answer("discovery_prompt") = "no" =>
              /\ ~Called("sample_time")
              /\ ~Called("get_domain")
              /\ last.guess_values
              /\ ~guess_values
        /\ Answer("discovery_prompt") \in {"yes", "sample"} =>
              last.guess_values /\ guess_values
        /\ ~last.guess_values =>
              /\ ~Called("discovery_prompt")
              /\ ~Called("get_domain")
              /\ ~guess_values

\* C20: "No" in the discovery dialog skips the inference and switches
\* guess_values off; the other answers leave it as it was; while it is off
\* get_table neither asks nor infers, and only the check box switches it on.
C20_NoSwitchesOff ==
    /\ []C20_AfterCall
    /\ [][(~guess_values /\ guess_values') => ToggleGuessValues]_vars

\* C20 witness: the discovery dialog was answered "No"; a dataset came back
\* with no domain inferred and guess_values is off
C20_Witness ==
    /\ last.fresh
    /\ Answer("discovery_prompt") = "no"
    /\ ~Called("get_domain")
    /\ ~guess_values
    /\ last.result # None

(***************************************************************************)
(* Properties of the parser (specification SpecParse)                      *)
(***************************************************************************)
\* 'SELECT 1;'
SelectOne == <<"S","E","L","E","C","T"," ","1",";">>
\* 'A'
KeyA == <<"A">>

\* C6: a file of a name line for A and the one-line query SELECT 1; yields
\* exactly {"A": "SELECT 1;"}.
C6_OneLineQuery ==
    ( /\ Len(resfile) = 2
      /\ resfile[1] \in {NameLineA, NameLineA2}
      /\ resfile[2] \in {OneLineQuery, OneLineQueryAtEof} )
    => selects = <<[k |-> KeyA, v |-> SelectOne]>>

\* a line without its line break
WithoutLineBreak(line) ==
    IF EndsWithNewline(line) THEN SubSeq(line, 1, Len(line) - 1) ELSE line

\* what a line contributes according to C7: the line up to its first "--",
\* or the whole line (without its line break) when it has none
C7_Contribution(line) ==
    IF Contains(line, CommentMark)
    THEN SubSeq(line, 1, Find(line, CommentMark))
    ELSE WithoutLineBreak(line)

\* a name line for A, a start line, one or more middle lines, a stop line
C7_IsBlock(f) ==
    /\ Len(f) >= 4
    /\ f[1] \in {NameLineA, NameLineA2}
    /\ f[2] = StartLine
    /\ \A i \in 3..(Len(f) - 1) : f[i] = MiddleLine
    /\ f[Len(f)] \in {StopLine, StopLineAtEof}

\* C7: a multi-line block is stored as its lines, each without its trailing
\* comment and line break and otherwise whole, joined with single spaces.
C7_MultiLineJoin ==
    C7_IsBlock(resfile) =>
        selects = <<[k |-> KeyA,
                     v |-> Join(<<" ">>, [i \in 1..(Len(resfile) - 1) |->
                                             C7_Contribution(resfile[i + 1])])]>>

\* a complete block of n lines for the name A: a name line and a one-line
\* query, or a name line, a start line and a stop line
C8_IsBlock(b) ==
    /\ Len(b) \in {2, 3}
    /\ b[1] \in {NameLineA, NameLineA2}
    /\ Len(b) = 2 => b[2] = OneLineQuery
    /\ Len(b) = 3 => b[2] = StartLine /\ b[3] \in {StopLine, SubSelectStopLine}

\* C8: of two blocks with the same name (ignoring case and surrounding
\* blanks) the mapping keeps one entry, under the trimmed upper-case name,
\* with the text the later block has on its own.
C8_LaterBlockWins ==
    \A n \in 2..3 :
        ( /\ Len(resfile) > n
          /\ C8_IsBlock(SubSeq(resfile, 1, n))
          /\ C8_IsBlock(SubSeq(resfile, n + 1, Len(resfile))) )
        => /\ Len(selects) = 1
           /\ selects[1].k = KeyA
           /\ selects = ParseFile(SubSeq(resfile, n + 1, Len(resfile)))

\* the line the step read
LineRead == resfile'[Len(resfile')]

\* the first if-tree takes the line by its one-line rule (line 134)
OneLineRule(line) ==
    /\ ~name_pattern(line)
    /\ ~ignore_line(line)
    /\ start_query(line)
    /\ stop_query(line)

\* C15: a line that starts a query and ends with ";" is stored under the
\* pending name, the pending name is reset and the buffer stays as it was,
\* whatever the parser's state.
C15_OneLineRuleOnly ==
    [][(resfile' # resfile /\ OneLineRule(LineRead)) =>
          /\ selects' = DictPut(selects, trn(name), LineRead)
          /\ name' = None
          /\ query' = query]_vars

\* C19: a line read while no name is pending, and that is no name line,
\* leaves the result mapping as it was.
C19_EntriesNeedName ==
    [][(resfile' # resfile /\ name = None /\ ~name_pattern(LineRead)) =>
          selects' = selects]_vars

(***************************************************************************)
(* Properties of the catalog (specification SpecCatalog)                   *)
(***************************************************************************)
\* C9: the catalog is empty without a backend, and otherwise the two
\* sentinels, the named queries in insertion order, then the tables the
\* backend listed, in its order.
C9_CatalogOrder ==
    tables = IF backend = None
             THEN <<>>
             ELSE <<SelectATable, CustomSQL>>
                  \o [i \in 1..Len(file_queries) |-> file_queries[i].k]
                  \o listed

\* C9 witness: a catalog with two named queries and two tables
C9_Witness ==
    /\ backend # None
    /\ Len(file_queries) = 2
    /\ Len(listed) = 2
    /\ Len(tables) = 6

\* the step is _load_tables_from_file failing: the path is empty, or the file
\* cannot be read to its end
LoadFails ==
    \E lines \in ResFiles, lt \in TableLists :
        \E readable \in 0..Len(lines) :
            /\ file_controls_visible
            /\ path_to_res_file = EmptyText \/ readable < Len(lines)
            /\ Assign([load_tables_from_file(W, lines, readable, lt)
                           EXCEPT !.last = NoCall])

\* C10: a failing load leaves the named queries, the catalog and the current
\* dataset (and everything but the two error indicators) as they were, and
\* shows an error.
C10_FailedLoadKeepsState ==
    [][LoadFails =>
          /\ file_queries' = file_queries
          /\ tables' = tables
          /\ curIdx' = curIdx
          /\ data_desc_table' = data_desc_table
          /\ UNCHANGED <<backend, table, sql, sqltext, guess_values, download,
                         downloadcb_enabled, materialize, materialize_table_name,
                         path_to_res_file, connection_error, data_sampled,
                         missing_extension, listed, custom_sql_visible,
                         file_controls_visible>>
          /\ empty_path' \/ file_os_error']_vars

\* C10 witness: the file could not be read while named queries, a catalog
\* and a dataset were there
C10_Witness ==
    /\ file_os_error
    /\ file_queries # <<>>
    /\ tables # <<>>
    /\ data_desc_table # None

\* the item i of the catalog is both a named query and a table the backend listed
SharedLabel(i) ==
    /\ i > 0
    /\ DictHas(file_queries, ItemText(tables, i))
    /\ \E k \in 1..Len(listed) : listed[k] = ItemText(tables, i)

\* C12: on a named query get_table opens the relation on the text the
\* mapping holds for that name.
C12_NamedQuerySql ==
    ( /\ last.fresh
      /\ curIdx > 0
      /\ DictHas(file_queries, ItemText(tables, curIdx)) )
    => \A i \in 1..Len(last.calls) :
           last.calls[i].kind = "SqlTable" =>
               last.calls[i].text = DictGet(file_queries, ItemText(tables, curIdx))

\* the step is select_table on the item i
Activates(i) ==
    \E e \in SelectEnvs([W EXCEPT !.curIdx = i], CatalogLens) :
        Assign(select_table([W EXCEPT !.curIdx = i], e))

\* what C14 says of the state a get_table call leaves
C14_AfterCall ==
    (last.fresh /\ SharedLabel(curIdx)) =>
        /\ \A i \in 1..Len(last.calls) :
              last.calls[i].kind = "SqlTable" =>
                  /\ last.calls[i].text = sqltext
                  /\ last.calls[i].text # ItemText(tables, curIdx)
        /\ sql = sqltext

\* C14: on a label that a named query and a table share, at either index,
\* select_table loads the editor with the named query's text and opens
\* nothing, and get_table opens the editor's text, not the table.
C14_NamedBranchWins ==
    /\ []C14_AfterCall
    /\ [][\A i \in 0..(Len(tables) - 1) :
              (SharedLabel(i) /\ Activates(i)) =>
                  /\ sqltext' = DictGet(file_queries, ItemText(tables, i))
                  /\ curIdx' = i
                  /\ ~last'.fresh
                  /\ table' = None]_vars

\* C14 witness: get_table opened a relation with the second occurrence of a
\* shared label selected
C14_Witness ==
    /\ last.fresh
    /\ SharedLabel(curIdx)
    /\ curIdx > FindText(tables, ItemText(tables, curIdx))
    /\ Opened
    /\ last.result # None

====
